---- MODULE Spec2Model ----
(***************************************************************************)
(* A model of src/index.ts: class Collection, a last-write-wins key-value  *)
(* store with deletion tombstones, a pending-updates mirror, a cache of    *)
(* computed properties, a lazily computed hash and change subscribers.     *)
(*                                                                         *)
(* A JavaScript object used as a map is modelled as the sequence of its    *)
(* <<key, value>> pairs in insertion order (the order Object.entries and   *)
(* JSON.stringify walk it in).  A Live value is the pair <<timestamp,      *)
(* data>>, a tombstone value is the timestamp.                             *)
(***************************************************************************)
EXTENDS Integers, Sequences, FiniteSets, TLC

\* ------------------------------------------------------------------ bounds
MaxTs == 2
MaxSubscribers == 1
MaxListeners == 2
MaxPayload == 2
MaxPrefix == 1

\* ------------------------------------------------------------------ inputs
Keys == {"a", "b"}
Timestamps == 1 .. MaxTs
\* 0 stands for every timestamp argument that is not a positive integer
\* (undefined, 0, a negative number).
TsInputs == 0 .. MaxTs
Undefined == "undefined"
Null == "null"
Data == {"x", "y"}
\* the number NaN, a value a caller may store like any other
NaN == "NaN"
DataInputs == Data \cup {Undefined}
Callbacks == {"f"}
\* a callback that writes to the Collection it listens to: it keeps the key "b"
\* out of the entries, () => { if (live("b")) collection.remove("b", MaxTs) }
EvictB == "evictB"
Listeners == {"f", EvictB}
Fns == {"liveKeys"}
NoValidation == "none"
RejectY == "rejectY"

\* ------------------------------------------------------- objects used as maps
Has(o, k) == \E i \in DOMAIN o : o[i][1] = k

Get(o, k) == o[CHOOSE i \in DOMAIN o : o[i][1] = k][2]

\* o[k] = v : an existing key keeps its place, a new key goes last
Put(o, k, v) ==
  IF Has(o, k)
    THEN [i \in DOMAIN o |-> IF o[i][1] = k THEN <<k, v>> ELSE o[i]]
    ELSE Append(o, <<k, v>>)

\* delete o[k]
Del(o, k) == SelectSeq(o, LAMBDA p : p[1] # k)

KeysOf(o) == {o[i][1] : i \in DOMAIN o}

\* the map as a set of <<key, value>> pairs, its insertion order forgotten
AsSet(o) == {o[i] : i \in DOMAIN o}

EmptyUpdates == [entries |-> <<>>, deletedKeys |-> <<>>]

\* ------------------------------------------------------------------ helpers
isPositiveInteger(value) == value > 0

\* the validateEntry predicate the user configured: RejectY rejects the data "y"
validateEntry(v, key, data) == IF v = RejectY THEN data # "y" ELSE TRUE

\* a === b for two stored values: NaN is not === to itself
strictEquals(a, b) == a = b /\ a # NaN

\* the JSON token of a value inside an array: undefined, null and NaN are all
\* written as the token null, a string as a string token
jsonValue(d) == IF d \in {Undefined, Null, NaN} THEN <<"null">> ELSE <<"string", d>>

\* the value JSON.parse gives for a token
parseValue(tok) == IF tok[1] = "null" THEN Null ELSE tok[2]

\* JSON.stringify of an entries object, as the syntax tree of the text
stringifyEntries(e) ==
  [i \in DOMAIN e |-> <<e[i][1], <<e[i][2][1], jsonValue(e[i][2][2])>>>>]

\* the pluggable hash function, taken to be injective and never ''
hashFunction(str) == <<"h", str>>

\* the pure function a caller passes to get(fn): the keys of the entries
ComputedProperty(fn, e) == [i \in DOMAIN e |-> e[i][1]]

\* ------------------------------------------------------------- constructor
NewCollection(validate, default) ==
  [entries |-> <<>>,
   deletedKeys |-> <<>>,
   updates |-> EmptyUpdates,
   cachedHash |-> <<>>,
   cachedComputedProperties |-> <<>>,
   validationFunction |-> validate,
   subscribers |-> <<>>,
   defaultValue |-> default,
   calls |-> <<>>]

\* --------------------------------------------------------- the mutation path
RECURSIVE onEntriesUpdate(_)
RECURSIVE remove(_, _, _, _)

\* what a callback finds when it is called: the maps, the pending updates and
\* whether both caches are empty
Observed(c, fn) ==
  [fn |-> fn,
   entries |-> c.entries,
   deletedKeys |-> c.deletedKeys,
   updates |-> c.updates,
   clean |-> c.cachedHash = <<>> /\ c.cachedComputedProperties = <<>>]

\* fn(): the call is recorded in calls; EvictB then removes "b" if it is live,
\* and that remove runs to its end, notifications included, before fn returns
invoke(c, fn) ==
  LET c1 == [c EXCEPT !.calls = Append(c.calls, Observed(c, fn))]
  IN IF fn = EvictB /\ Has(c1.entries, "b") THEN remove(c1, "b", MaxTs, MaxTs).c ELSE c1

\* subs.forEach((fn) => fn()), from the i-th element on; subs is the array
\* this.subscribers was when forEach began
RECURSIVE forEachSubscriber(_, _, _)
forEachSubscriber(c, subs, i) ==
  IF i > Len(subs) THEN c ELSE forEachSubscriber(invoke(c, subs[i]), subs, i + 1)

\* onEntriesUpdate, were it to leave the cached hash in place
onEntriesUpdateKeepsHash(c) ==
  forEachSubscriber([c EXCEPT !.cachedComputedProperties = <<>>], c.subscribers, 1)

onEntriesUpdate(c) ==
  forEachSubscriber([c EXCEPT !.cachedHash = <<>>, !.cachedComputedProperties = <<>>],
                    c.subscribers, 1)

\* the closure add passes to updateEntryObjects
addUpdate(e, dk, key, entry) == <<Put(e, key, entry), Del(dk, key)>>

\* removeUpdate, were it to leave the entry in place
removeUpdateKeepsEntry(e, dk, key, ts) == <<e, Put(dk, key, ts)>>

\* the closure remove passes to updateEntryObjects
removeUpdate(e, dk, key, ts) == <<Del(e, key), Put(dk, key, ts)>>

\* the closure of the caller (kind "add" or "remove") applied to two maps
updateData(kind, key, v, e, dk) ==
  IF kind = "add" THEN addUpdate(e, dk, key, v) ELSE removeUpdate(e, dk, key, v)

\* updateEntryObjects, were the subscribers called before the pending updates
\* are written
updateEntryObjectsNotifiesEarly(c, kind, key, v) ==
  LET p == updateData(kind, key, v, c.entries, c.deletedKeys)
      c1 == onEntriesUpdate([c EXCEPT !.entries = p[1], !.deletedKeys = p[2]])
      u == updateData(kind, key, v, c1.updates.entries, c1.updates.deletedKeys)
  IN [c1 EXCEPT !.updates = [entries |-> u[1], deletedKeys |-> u[2]]]

\* updateData is applied to the primary maps, then to the pending updates
updateEntryObjects(c, kind, key, v) ==
  LET p == updateData(kind, key, v, c.entries, c.deletedKeys)
      u == updateData(kind, key, v, c.updates.entries, c.updates.deletedKeys)
  IN onEntriesUpdate([c EXCEPT !.entries = p[1],
                               !.deletedKeys = p[2],
                               !.updates = [entries |-> u[1], deletedKeys |-> u[2]]])

\* timestamp of the current entry, or of the last deletion: <<defined, value>>
existingTimestamp(c, key) ==
  IF Has(c.entries, key) THEN <<TRUE, Get(c.entries, key)[1]>>
  ELSE IF Has(c.deletedKeys, key) THEN <<TRUE, Get(c.deletedKeys, key)>>
  ELSE <<FALSE, 0>>

\* addAccepts, were the comparison strict
addAcceptsStrict(c, key, ts) ==
  ~existingTimestamp(c, key)[1] \/ ts > existingTimestamp(c, key)[2]

\* addAccepts, were the last write applied to win whatever its timestamp
addAcceptsAlways(c, key, ts) == TRUE

addAccepts(c, key, ts) ==
  ~existingTimestamp(c, key)[1] \/ ts >= existingTimestamp(c, key)[2]

\* add, were a write that loses the comparison to go through onEntriesUpdate
addInvalidatesOnLoss(c, key, timestamp, data, now) ==
  LET d == IF data = Undefined THEN c.defaultValue ELSE data
      ts == IF isPositiveInteger(timestamp) THEN timestamp ELSE now
  IN IF c.validationFunction # NoValidation /\ ~validateEntry(c.validationFunction, key, d)
       THEN [c |-> c, ret |-> "throw"]
     ELSE IF addAccepts(c, key, ts)
       THEN [c |-> updateEntryObjects(c, "add", key, <<ts, d>>),
             ret |-> "true"]
     ELSE [c |-> onEntriesUpdate(c), ret |-> "false"]

\* add, were the data validated only once the write has won the comparison
addValidatesLate(c, key, timestamp, data, now) ==
  LET d == IF data = Undefined THEN c.defaultValue ELSE data
      ts == IF isPositiveInteger(timestamp) THEN timestamp ELSE now
  IN IF ~addAccepts(c, key, ts) THEN [c |-> c, ret |-> "false"]
     ELSE IF c.validationFunction # NoValidation /\ ~validateEntry(c.validationFunction, key, d)
       THEN [c |-> c, ret |-> "throw"]
     ELSE [c |-> updateEntryObjects(c, "add", key, <<ts, d>>), ret |-> "true"]

\* add(key, timestamp, data); now is what Date.now() returns
add(c, key, timestamp, data, now) ==
  LET d == IF data = Undefined THEN c.defaultValue ELSE data
      ts == IF isPositiveInteger(timestamp) THEN timestamp ELSE now
  IN IF c.validationFunction # NoValidation /\ ~validateEntry(c.validationFunction, key, d)
       THEN [c |-> c, ret |-> "throw"]
     ELSE IF addAccepts(c, key, ts)
       THEN [c |-> updateEntryObjects(c, "add", key, <<ts, d>>),
             ret |-> "true"]
     ELSE [c |-> c, ret |-> "false"]

\* removeAccepts, were the comparison strict
removeAcceptsStrict(c, key, ts) ==
  ~Has(c.entries, key) \/ Get(c.entries, key)[1] < ts

removeAccepts(c, key, ts) ==
  ~Has(c.entries, key) \/ Get(c.entries, key)[1] <= ts

\* remove(key, timestamp)
remove(c, key, timestamp, now) ==
  LET ts == IF isPositiveInteger(timestamp) THEN timestamp ELSE now
  IN IF removeAccepts(c, key, ts)
       THEN [c |-> updateEntryObjects(c, "remove", key, ts),
             ret |-> "true"]
     ELSE [c |-> c, ret |-> "false"]

\* clear, were it to leave out the call of onEntriesUpdate
clearSilently(c) ==
  [c EXCEPT !.entries = <<>>, !.deletedKeys = <<>>, !.updates = EmptyUpdates]

clear(c) ==
  onEntriesUpdate([c EXCEPT !.entries = <<>>,
                            !.deletedKeys = <<>>,
                            !.updates = EmptyUpdates])

\* subscribe(fn)
subscribe(c, fn) == [c EXCEPT !.subscribers = Append(c.subscribers, fn)]

\* the function subscribe returned: it drops every occurrence of fn
unsubscribe(c, fn) ==
  [c EXCEPT !.subscribers = SelectSeq(c.subscribers, LAMBDA f : f # fn)]

\* get(fn): the cached value, or fn(entries), which is then cached
get(c, fn) ==
  IF Has(c.cachedComputedProperties, fn)
    THEN [c |-> c, value |-> Get(c.cachedComputedProperties, fn)]
    ELSE LET value == ComputedProperty(fn, c.entries)
         IN [c |-> [c EXCEPT !.cachedComputedProperties =
                                Put(c.cachedComputedProperties, fn, value)],
             value |-> value]

\* the hash accessor: cachedHash || hashFunction(JSON.stringify(entries))
hash(c) ==
  LET h == IF c.cachedHash # <<>> THEN c.cachedHash
           ELSE hashFunction(stringifyEntries(c.entries))
  IN [c |-> [c EXCEPT !.cachedHash = h], value |-> h]

\* ------------------------------------------------------------ clearUpdates
\* the loop over Object.entries(alreadySyncedUpdates.entries), from its i-th
\* pair on; destructuring this.updates.entries[key] throws a TypeError when
\* the pending updates hold no entry for the key
RECURSIVE clearSyncedEntries(_, _, _)
clearSyncedEntries(c, synced, i) ==
  IF i > Len(synced) THEN [c |-> c, ret |-> "void"]
  ELSE LET key == synced[i][1]
           timestamp == synced[i][2][1]
           value == synced[i][2][2]
       IN IF ~Has(c.updates.entries, key) THEN [c |-> c, ret |-> "throw"]
          ELSE LET update == Get(c.updates.entries, key)
                   c1 == IF update[1] = timestamp /\ strictEquals(update[2], value)
                           THEN [c EXCEPT !.updates.entries = Del(c.updates.entries, key)]
                           ELSE c
               IN clearSyncedEntries(c1, synced, i + 1)

\* the loop over Object.entries(alreadySyncedUpdates.deletedKeys)
RECURSIVE clearSyncedDeletedKeys(_, _, _)
clearSyncedDeletedKeys(c, synced, i) ==
  IF i > Len(synced) THEN c
  ELSE LET key == synced[i][1]
           c1 == IF Has(c.updates.deletedKeys, key)
                    /\ Get(c.updates.deletedKeys, key) = synced[i][2]
                   THEN [c EXCEPT !.updates.deletedKeys = Del(c.updates.deletedKeys, key)]
                   ELSE c
       IN clearSyncedDeletedKeys(c1, synced, i + 1)

\* clearUpdates(alreadySyncedUpdates); given is FALSE when called with no argument
clearUpdates(c, given, alreadySyncedUpdates) ==
  IF given
    THEN LET r == clearSyncedEntries(c, alreadySyncedUpdates.entries, 1)
         IN IF r.ret = "throw" THEN r
            ELSE [c |-> clearSyncedDeletedKeys(r.c, alreadySyncedUpdates.deletedKeys, 1),
                  ret |-> "void"]
    ELSE [c |-> [c EXCEPT !.updates = EmptyUpdates], ret |-> "void"]

\* ----------------------------------------------------------- export / import
\* export(): the JSON text, as its syntax tree
export(c) ==
  [entries |-> stringifyEntries(c.entries), deletedKeys |-> c.deletedKeys]

\* JSON.parse of a text export() wrote: an object with both fields, each a
\* plain object; a field of a payload is given by what it is (entriesType,
\* deletedKeysType) and by the pairs Object.entries finds in it
JSONparse(text) ==
  [entriesType |-> "object",
   entries |-> [i \in DOMAIN text.entries |->
                  <<text.entries[i][1],
                    <<text.entries[i][2][1], parseValue(text.entries[i][2][2])>>>>],
   deletedKeysType |-> "object",
   deletedKeys |-> text.deletedKeys]

\* what a field of a payload may be: a plain object, an array, a string, or
\* undefined when the field is missing
FieldTypes == {"object", "array", "string", "undefined"}

\* the test import makes of a field: !field || typeof field !== 'object'
\* (typeof of an array is 'object')
invalidField(type) == type \notin {"object", "array"}

\* the forEach over the imported entries, from the i-th on: an add that throws
\* is caught, an add that returns false is ignored
RECURSIVE importEntries(_, _, _, _)
importEntries(c, es, i, now) ==
  IF i > Len(es) THEN c
  ELSE LET key == es[i][1]
           arr == es[i][2]
           data == IF arr[2] = Undefined THEN c.defaultValue ELSE arr[2]
       IN importEntries(add(c, key, arr[1], data, now).c, es, i + 1, now)

\* importDeletedKeys, were every tombstone written directly, also that of a key
\* that has an entry
RECURSIVE importDeletedKeysDirect(_, _, _, _)
importDeletedKeysDirect(c, dks, i, now) ==
  IF i > Len(dks) THEN c
  ELSE LET key == dks[i][1]
           timestamp == dks[i][2]
           c1 == IF ~isPositiveInteger(timestamp) THEN c
                 ELSE [c EXCEPT !.deletedKeys = Put(c.deletedKeys, key, timestamp)]
       IN importDeletedKeysDirect(c1, dks, i + 1, now)

\* the forEach over the imported deletedKeys, from the i-th on
RECURSIVE importDeletedKeys(_, _, _, _)
importDeletedKeys(c, dks, i, now) ==
  IF i > Len(dks) THEN c
  ELSE LET key == dks[i][1]
           timestamp == dks[i][2]
           c1 == IF ~isPositiveInteger(timestamp) THEN c
                 ELSE IF Has(c.entries, key) THEN remove(c, key, timestamp, now).c
                 ELSE [c EXCEPT !.deletedKeys = Put(c.deletedKeys, key, timestamp)]
       IN importDeletedKeys(c1, dks, i + 1, now)

\* import(data, clearBeforeImporting)
import(c, data, clearBeforeImporting, now) ==
  IF invalidField(data.entriesType) \/ invalidField(data.deletedKeysType)
    THEN [c |-> c, ret |-> "throw"]
  ELSE LET c0 == IF clearBeforeImporting THEN clear(c) ELSE c
           c1 == importEntries(c0, data.entries, 1, now)
       IN [c |-> importDeletedKeys(c1, data.deletedKeys, 1, now), ret |-> "void"]

\* ------------------------------------------------------------------- state
VARIABLES
  entries,                   \* this.entries
  deletedKeys,               \* this.deletedKeys
  updates,                   \* this.updates
  cachedHash,                \* this.cachedHash, <<>> for ''
  cachedComputedProperties,  \* this.cachedComputedProperties
  validationFunction,        \* this.validationFunction
  subscribers,               \* this.subscribers
  defaultValue,              \* this.defaultValue
  calls,                     \* the callbacks the last call invoked, in order,
                             \* each with what it found
  result,                    \* what the last call returned or that it threw
  snap,                      \* the object a caller got from getUpdates()
  fresh,                     \* a second Collection, fed with an export of this one
  replicas                   \* two Collections that receive the same operations

vars == <<entries, deletedKeys, updates, cachedHash, cachedComputedProperties,
          validationFunction, subscribers, defaultValue, calls, result, snap, fresh,
          replicas>>

\* the Collection object at the start of a call
Self ==
  [entries |-> entries,
   deletedKeys |-> deletedKeys,
   updates |-> updates,
   cachedHash |-> cachedHash,
   cachedComputedProperties |-> cachedComputedProperties,
   validationFunction |-> validationFunction,
   subscribers |-> subscribers,
   defaultValue |-> defaultValue,
   calls |-> <<>>]

\* the Collection object at the end of a call
Becomes(c) ==
  /\ entries' = c.entries
  /\ deletedKeys' = c.deletedKeys
  /\ updates' = c.updates
  /\ cachedHash' = c.cachedHash
  /\ cachedComputedProperties' = c.cachedComputedProperties
  /\ validationFunction' = c.validationFunction
  /\ subscribers' = c.subscribers
  /\ defaultValue' = c.defaultValue
  /\ calls' = c.calls

\* the last call: the method, its key ("-" when it takes none), how it ended
\* ("true", "false", "void", "value" or "throw") and the value it returned
Returned(op, key, status, value) ==
  [op |-> op, key |-> key, status |-> status, value |-> value]

\* kind: "none", "live" (the caller holds this.updates itself) or "detached"
\* (the caller holds an object that is no longer, or never was, this.updates,
\* with the content val); dirty: the keys an accepted add or remove wrote
\* since the caller got the object
NoSnap == [kind |-> "none", val |-> EmptyUpdates, dirty |-> {}]
NoFresh == [done |-> FALSE, entries |-> <<>>, deletedKeys |-> <<>>]

\* an operation with an explicit timestamp, sent to both replicas
Ops ==
  [op : {"add"}, key : Keys, timestamp : Timestamps, data : Data]
  \cup [op : {"remove"}, key : Keys, timestamp : Timestamps, data : {Undefined}]

\* the replicas before any operation: pair is the two operations that replica
\* a will receive in this order and replica b in the other order
Replicas(pair) ==
  [pair |-> pair,
   a |-> NewCollection(NoValidation, "x"),
   b |-> NewCollection(NoValidation, "x"),
   seqA |-> <<>>,
   seqB |-> <<>>,
   prefix |-> <<>>]

\* a caller holding this.updates keeps the old object once the Collection
\* assigns a new one to this.updates
Orphaned(s) ==
  IF s.kind = "live" THEN [kind |-> "detached", val |-> updates, dirty |-> {}]
  ELSE [s EXCEPT !.dirty = {}]

\* the caller's object after an add or remove of key that ended with status
Written(s, key, status) ==
  IF s.kind # "none" /\ status = "true" THEN [s EXCEPT !.dirty = s.dirty \cup {key}]
  ELSE s

InitWith(validations, defaults) ==
  /\ entries = <<>>
  /\ deletedKeys = <<>>
  /\ updates = EmptyUpdates
  /\ cachedHash = <<>>
  /\ cachedComputedProperties = <<>>
  /\ validationFunction \in validations
  /\ subscribers = <<>>
  /\ defaultValue \in defaults
  /\ calls = <<>>
  /\ result = Returned("new", "-", "void", <<>>)
  /\ snap = NoSnap
  /\ fresh = NoFresh
  /\ replicas = Replicas(<<>>)

Init == InitWith({NoValidation, RejectY}, {"x"})

\* ----------------------------------------------------------------- actions
\* the values Date.now() may return in a call that reads the clock
Clock(reads) == IF reads THEN Timestamps ELSE {1}

Add(key, timestamp, data) ==
  \E now \in Clock(~isPositiveInteger(timestamp)) :
  \E r \in {add(Self, key, timestamp, data, now)} :
       /\ Becomes(r.c)
       /\ result' = Returned("add", key, r.ret, <<>>)
       /\ snap' = Written(snap, key, r.ret)
       /\ fresh' = NoFresh
       /\ UNCHANGED replicas

Remove(key, timestamp) ==
  \E now \in Clock(~isPositiveInteger(timestamp)) :
  \E r \in {remove(Self, key, timestamp, now)} :
       /\ Becomes(r.c)
       /\ result' = Returned("remove", key, r.ret, <<>>)
       /\ snap' = Written(snap, key, r.ret)
       /\ fresh' = NoFresh
       /\ UNCHANGED replicas

Clear ==
  /\ Becomes(clear(Self))
  /\ result' = Returned("clear", "-", "void", <<>>)
  /\ snap' = Orphaned(snap)
  /\ fresh' = NoFresh
  /\ UNCHANGED replicas

\* subscribe(fn), on a Collection that has fewer than max subscribers
SubscribeUpTo(fn, max) ==
  /\ Len(subscribers) < max
  /\ Becomes(subscribe(Self, fn))
  /\ result' = Returned("subscribe", "-", "void", <<>>)
  /\ UNCHANGED <<snap, fresh, replicas>>

Subscribe(fn) == SubscribeUpTo(fn, MaxSubscribers)

Unsubscribe(fn) ==
  /\ \E i \in DOMAIN subscribers : subscribers[i] = fn
  /\ Becomes(unsubscribe(Self, fn))
  /\ result' = Returned("unsubscribe", "-", "void", <<>>)
  /\ UNCHANGED <<snap, fresh, replicas>>

GetComputed(fn) ==
  \E r \in {get(Self, fn)} :
     /\ Becomes(r.c)
     /\ result' = Returned("get", "-", "value", r.value)
     /\ UNCHANGED <<snap, fresh, replicas>>

Hash ==
  \E r \in {hash(Self)} :
     /\ Becomes(r.c)
     /\ result' = Returned("hash", "-", "value", r.value)
     /\ UNCHANGED <<snap, fresh, replicas>>

\* clearUpdates()
ClearUpdates ==
  \E r \in {clearUpdates(Self, FALSE, EmptyUpdates)} :
     /\ Becomes(r.c)
     /\ result' = Returned("clearUpdates", "-", r.ret, <<>>)
     /\ snap' = Orphaned(snap)
     /\ UNCHANGED <<fresh, replicas>>

\* clearUpdates(getUpdates())
ClearUpdatesSynced ==
  \E r \in {clearUpdates(Self, TRUE, updates)} :
     /\ Becomes(r.c)
     /\ result' = Returned("clearUpdatesSynced", "-", r.ret, <<>>)
     /\ UNCHANGED <<snap, fresh, replicas>>

\* objects with at most n keys and values in V
Objects(V, n) ==
  {o \in UNION {[1 .. m -> Keys \X V] : m \in 0 .. n} :
     \A i, j \in DOMAIN o : o[i][1] = o[j][1] => i = j}

ImportData == {"y", Undefined}

\* the payloads in which a field is not a mapping: it is missing, a string or
\* the empty array, the other field being the empty object
Malformed ==
  {[entriesType |-> t, entries |-> <<>>, deletedKeysType |-> "object", deletedKeys |-> <<>>] :
     t \in FieldTypes \ {"object"}}
  \cup {[entriesType |-> "object", entries |-> <<>>, deletedKeysType |-> t, deletedKeys |-> <<>>] :
          t \in FieldTypes \ {"object"}}

\* the payloads import is called with: those with two mappings of at most
\* MaxPayload records together, and the malformed ones
Payloads ==
  {[entriesType |-> "object", entries |-> e, deletedKeysType |-> "object", deletedKeys |-> d] :
     <<e, d>> \in {p \in Objects(TsInputs \X ImportData, MaxPayload)
                           \X Objects(TsInputs, MaxPayload) :
                     Len(p[1]) + Len(p[2]) <= MaxPayload}}
  \cup Malformed

Import(data, clearBeforeImporting) ==
  \E now \in Clock(\E i \in DOMAIN data.entries : ~isPositiveInteger(data.entries[i][2][1])) :
  \E r \in {import(Self, data, clearBeforeImporting, now)} :
       /\ Becomes(r.c)
       /\ result' = Returned("import", "-", r.ret, <<>>)
       /\ snap' = IF r.ret # "throw" /\ clearBeforeImporting THEN Orphaned(snap) ELSE snap
       /\ fresh' = NoFresh
       /\ UNCHANGED replicas

\* the payload without the records import is to skip: the entries whose
\* timestamp is not a positive integer or that validateEntry rejects, and the
\* tombstones whose timestamp is not a positive integer
Applicable(c, data) ==
  [data EXCEPT
     !.entries = SelectSeq(data.entries,
                   LAMBDA p : /\ isPositiveInteger(p[2][1])
                              /\ \/ c.validationFunction = NoValidation
                                 \/ validateEntry(c.validationFunction, p[1],
                                       IF p[2][2] = Undefined THEN c.defaultValue ELSE p[2][2])),
     !.deletedKeys = SelectSeq(data.deletedKeys, LAMBDA p : isPositiveInteger(p[2]))]

\* import(data, clearBeforeImporting) of a payload of two mappings, while a
\* copy of this Collection imports the payload without the records to skip
ImportBoth(data, clearBeforeImporting) ==
  \E now \in Clock(\E i \in DOMAIN data.entries : ~isPositiveInteger(data.entries[i][2][1])) :
  \E r \in {import(Self, data, clearBeforeImporting, now)} :
  \E copy \in {import(Self, Applicable(Self, data), clearBeforeImporting, now)} :
       /\ Becomes(r.c)
       /\ result' = Returned("importBoth", "-", r.ret, <<>>)
       /\ snap' = IF r.ret # "throw" /\ clearBeforeImporting THEN Orphaned(snap) ELSE snap
       /\ fresh' = [done |-> TRUE, entries |-> copy.c.entries,
                                   deletedKeys |-> copy.c.deletedKeys]
       /\ UNCHANGED replicas

\* import(data), clearBeforeImporting left to its default true, by a caller
\* that keeps the payload it passed
ImportLogged(data) ==
  \E now \in Clock(\E i \in DOMAIN data.entries : ~isPositiveInteger(data.entries[i][2][1])) :
  \E r \in {import(Self, data, TRUE, now)} :
       /\ Becomes(r.c)
       /\ result' = Returned("importLogged", "-", r.ret, data)
       /\ snap' = IF r.ret # "throw" THEN Orphaned(snap) ELSE snap
       /\ fresh' = NoFresh
       /\ UNCHANGED replicas

\* getUpdates(): the caller holds this.updates itself
GetUpdates ==
  /\ snap' = [kind |-> "live", val |-> EmptyUpdates, dirty |-> {}]
  /\ result' = Returned("getUpdates", "-", "value", updates)
  /\ UNCHANGED <<entries, deletedKeys, updates, cachedHash, cachedComputedProperties,
                 validationFunction, subscribers, defaultValue, calls, fresh, replicas>>

\* getUpdates(), of which the caller keeps a copy (what it sent to be synced)
CopyUpdates ==
  /\ snap' = [kind |-> "detached", val |-> updates, dirty |-> {}]
  /\ result' = Returned("getUpdates", "-", "value", updates)
  /\ UNCHANGED <<entries, deletedKeys, updates, cachedHash, cachedComputedProperties,
                 validationFunction, subscribers, defaultValue, calls, fresh, replicas>>

\* the object the caller holds
Snapshot == IF snap.kind = "live" THEN updates ELSE snap.val

\* clearUpdates(A), A the object the caller holds
ClearUpdatesAck ==
  /\ snap.kind # "none"
  /\ \E r \in {clearUpdates(Self, TRUE, Snapshot)} :
       /\ Becomes(r.c)
       /\ result' = Returned("clearUpdatesAck", "-", r.ret, <<>>)
  /\ UNCHANGED <<snap, fresh, replicas>>

\* a fresh Collection of the same configuration imports export()
RoundTrip ==
  /\ \E r \in {import(NewCollection(validationFunction, defaultValue),
                      JSONparse(export(Self)), TRUE, 1)} :
       fresh' = [done |-> TRUE, entries |-> r.c.entries, deletedKeys |-> r.c.deletedKeys]
  /\ result' = Returned("roundTrip", "-", "void", <<>>)
  /\ UNCHANGED <<entries, deletedKeys, updates, cachedHash, cachedComputedProperties,
                 validationFunction, subscribers, defaultValue, calls, snap, replicas>>

\* the writes, and what observes them: the subscribers, get(fn) and hash
Next ==
  \/ \E key \in Keys, timestamp \in TsInputs, data \in DataInputs : Add(key, timestamp, data)
  \/ \E key \in Keys, timestamp \in TsInputs : Remove(key, timestamp)
  \/ Clear
  \/ \E fn \in Callbacks : Subscribe(fn)
  \/ \E fn \in Callbacks : Unsubscribe(fn)
  \/ \E fn \in Fns : GetComputed(fn)
  \/ Hash

Spec == Init /\ [][Next]_vars

\* the writes and the pending updates they leave, cleared now and then
NextMerge ==
  \/ \E key \in Keys, timestamp \in TsInputs, data \in DataInputs : Add(key, timestamp, data)
  \/ \E key \in Keys, timestamp \in TsInputs : Remove(key, timestamp)
  \/ Clear
  \/ ClearUpdates
  \/ ClearUpdatesSynced

SpecMerge == Init /\ [][NextMerge]_vars

\* the methods that write the maps, import among them
NextImport ==
  \/ \E key \in Keys, timestamp \in TsInputs, data \in DataInputs : Add(key, timestamp, data)
  \/ \E key \in Keys, timestamp \in TsInputs : Remove(key, timestamp)
  \/ Clear
  \/ ClearUpdates
  \/ ClearUpdatesSynced
  \/ \E data \in Payloads, clearBeforeImporting \in BOOLEAN : Import(data, clearBeforeImporting)

SpecImport == Init /\ [][NextImport]_vars

\* a caller that syncs the pending updates and acknowledges them
InitSync == InitWith({NoValidation}, {"x"})

NextSync ==
  \/ \E key \in Keys, timestamp \in Timestamps, data \in Data : Add(key, timestamp, data)
  \/ \E key \in Keys, timestamp \in Timestamps : Remove(key, timestamp)
  \/ Clear
  \/ GetUpdates
  \/ CopyUpdates
  \/ ClearUpdates
  \/ ClearUpdatesAck

SpecSync == InitSync /\ [][NextSync]_vars

\* add and remove, then an export imported by a fresh Collection
InitRoundTrip == InitWith({NoValidation, RejectY}, {Undefined, "x"})

NextRoundTrip ==
  \/ \E key \in Keys, timestamp \in TsInputs, data \in DataInputs : Add(key, timestamp, data)
  \/ \E key \in Keys, timestamp \in TsInputs : Remove(key, timestamp)
  \/ RoundTrip

SpecRoundTrip == InitRoundTrip /\ [][NextRoundTrip]_vars

\* writes of any stored value, NaN among them, and the pending updates cleared
\* with what getUpdates() returns
PendingData == {"x", NaN}

NextPending ==
  \/ \E key \in Keys, timestamp \in Timestamps, data \in PendingData : Add(key, timestamp, data)
  \/ \E key \in Keys, timestamp \in Timestamps : Remove(key, timestamp)
  \/ Clear
  \/ ClearUpdates
  \/ ClearUpdatesSynced

SpecPending == InitSync /\ [][NextPending]_vars

\* the payloads with at most one entry and at most one tombstone
SmallPayloads == {d \in Payloads : Len(d.entries) <= 1 /\ Len(d.deletedKeys) <= 1}

\* every method that writes the maps, import among them, and what observes
\* the writes: a subscriber, get(fn) and hash
NextObserved ==
  \/ \E key \in Keys, timestamp \in Timestamps : Add(key, timestamp, "x")
  \/ \E key \in Keys, timestamp \in Timestamps : Remove(key, timestamp)
  \/ Clear
  \/ ClearUpdatesSynced
  \/ \E data \in SmallPayloads, clearBeforeImporting \in BOOLEAN :
       Import(data, clearBeforeImporting)
  \/ \E fn \in Callbacks : Subscribe(fn)
  \/ \E fn \in Fns : GetComputed(fn)
  \/ Hash

SpecObserved == Init /\ [][NextObserved]_vars

\* writes, and imports of payloads that hold records to skip
NextReconcile ==
  \/ \E key \in Keys, timestamp \in Timestamps : Add(key, timestamp, "x")
  \/ \E key \in Keys, timestamp \in Timestamps : Remove(key, timestamp)
  \/ Clear
  \/ \E data \in Payloads \ Malformed, clearBeforeImporting \in BOOLEAN :
       ImportBoth(data, clearBeforeImporting)

SpecReconcile == Init /\ [][NextReconcile]_vars

\* writes, and imports that clear the Collection first
NextConflict ==
  \/ \E key \in Keys, timestamp \in Timestamps : Add(key, timestamp, "x")
  \/ \E key \in Keys, timestamp \in Timestamps : Remove(key, timestamp)
  \/ Clear
  \/ \E data \in SmallPayloads : ImportLogged(data)

SpecConflict == Init /\ [][NextConflict]_vars

\* writes to a Collection whose subscribers come and go, one of them writing
\* to the Collection when it is called
NextNotify ==
  \/ \E key \in Keys, timestamp \in Timestamps : Add(key, timestamp, "x")
  \/ \E key \in Keys, timestamp \in Timestamps : Remove(key, timestamp)
  \/ Clear
  \/ \E fn \in Listeners : SubscribeUpTo(fn, MaxListeners)
  \/ \E fn \in Listeners : Unsubscribe(fn)

SpecNotify == InitSync /\ [][NextNotify]_vars

\* ------------------------------------------------- two replicas, two orders
apply(c, o) ==
  IF o.op = "add" THEN add(c, o.key, o.timestamp, o.data, 1).c
  ELSE remove(c, o.key, o.timestamp, 1).c

\* an operation both replicas receive before their orders differ
Common(o) ==
  /\ replicas.seqA = <<>> /\ replicas.seqB = <<>>
  /\ Len(replicas.prefix) < MaxPrefix
  /\ replicas' = [replicas EXCEPT !.a = apply(replicas.a, o),
                                  !.b = apply(replicas.b, o),
                                  !.prefix = Append(replicas.prefix, o)]
  /\ UNCHANGED <<entries, deletedKeys, updates, cachedHash, cachedComputedProperties,
                 validationFunction, subscribers, defaultValue, calls, result, snap, fresh>>

\* replica a receives pair[1], then pair[2]
DeliverA ==
  /\ Len(replicas.seqA) < 2
  /\ \E o \in {replicas.pair[Len(replicas.seqA) + 1]} :
       replicas' = [replicas EXCEPT !.a = apply(replicas.a, o),
                                    !.seqA = Append(replicas.seqA, o)]
  /\ UNCHANGED <<entries, deletedKeys, updates, cachedHash, cachedComputedProperties,
                 validationFunction, subscribers, defaultValue, calls, result, snap, fresh>>

\* replica b receives pair[2], then pair[1]
DeliverB ==
  /\ Len(replicas.seqB) < 2
  /\ \E o \in {replicas.pair[2 - Len(replicas.seqB)]} :
       replicas' = [replicas EXCEPT !.b = apply(replicas.b, o),
                                    !.seqB = Append(replicas.seqB, o)]
  /\ UNCHANGED <<entries, deletedKeys, updates, cachedHash, cachedComputedProperties,
                 validationFunction, subscribers, defaultValue, calls, result, snap, fresh>>

InitConv ==
  /\ entries = <<>>
  /\ deletedKeys = <<>>
  /\ updates = EmptyUpdates
  /\ cachedHash = <<>>
  /\ cachedComputedProperties = <<>>
  /\ validationFunction = NoValidation
  /\ subscribers = <<>>
  /\ defaultValue = "x"
  /\ calls = <<>>
  /\ result = Returned("new", "-", "void", <<>>)
  /\ snap = NoSnap
  /\ fresh = NoFresh
  /\ \E o1, o2 \in Ops : o1 # o2 /\ replicas = Replicas(<<o1, o2>>)

NextConv ==
  \/ \E o \in Ops : Common(o)
  \/ DeliverA
  \/ DeliverB

SpecConv == InitConv /\ [][NextConv]_vars

\* ------------------------------------------------------------------ claims
\* the state of the replicas before their orders differ
RECURSIVE applyAll(_, _, _)
applyAll(c, seq, i) ==
  IF i > Len(seq) THEN c ELSE applyAll(apply(c, seq[i]), seq, i + 1)

Prior == applyAll(NewCollection(NoValidation, "x"), replicas.prefix, 1)

BothDelivered == Len(replicas.seqA) = 2 /\ Len(replicas.seqB) = 2

SameMaps(c1, c2) ==
  /\ AsSet(c1.entries) = AsSet(c2.entries)
  /\ AsSet(c1.deletedKeys) = AsSet(c2.deletedKeys)

\* C1: in every state reached by add, remove, clear, import and clearUpdates,
\* no key is both in entries and in deletedKeys.
C1_NoKeyLiveAndDeleted == KeysOf(entries) \cap KeysOf(deletedKeys) = {}

\* C1's case: an import has just run on a Collection that holds a Live entry
\* and a tombstone.
C1_Witness ==
  /\ result.op = "import" /\ result.status = "void"
  /\ entries # <<>> /\ deletedKeys # <<>>

\* C2: two operations with explicit timestamps applied to an empty Collection
\* in the two possible orders leave the same entries and the same deletedKeys.
\* Stated for operations whose timestamps differ, so that no tie is involved.
C2_Convergence ==
  (/\ BothDelivered
   /\ replicas.prefix = <<>>
   /\ replicas.pair[1].timestamp # replicas.pair[2].timestamp)
  => SameMaps(replicas.a, replicas.b)

\* C3: for a key with no prior record newer than t2 and t1 < t2, add(k, t2, v2)
\* then add(k, t1, v1), and the two in the other order, both end with the entry
\* <<t2, v2>> for k and with the same entries and deletedKeys.
C3_Case ==
  /\ BothDelivered
  /\ replicas.pair[1].op = "add" /\ replicas.pair[2].op = "add"
  /\ replicas.pair[1].key = replicas.pair[2].key
  /\ replicas.pair[1].timestamp # replicas.pair[2].timestamp
  /\ \/ ~existingTimestamp(Prior, replicas.pair[1].key)[1]
     \/ existingTimestamp(Prior, replicas.pair[1].key)[2] <= replicas.pair[1].timestamp
     \/ existingTimestamp(Prior, replicas.pair[1].key)[2] <= replicas.pair[2].timestamp

C3_AddsCommute ==
  C3_Case =>
    LET newer == IF replicas.pair[1].timestamp > replicas.pair[2].timestamp
                   THEN replicas.pair[1] ELSE replicas.pair[2]
    IN /\ Has(replicas.a.entries, newer.key)
       /\ Get(replicas.a.entries, newer.key) = <<newer.timestamp, newer.data>>
       /\ Has(replicas.b.entries, newer.key)
       /\ Get(replicas.b.entries, newer.key) = <<newer.timestamp, newer.data>>
       /\ SameMaps(replicas.a, replicas.b)

\* C3's case with a prior tombstone for the key, older than both writes'
\* newer timestamp, and the newer write delivered first to replica a.
C3_Witness ==
  /\ C3_Case
  /\ Has(Prior.deletedKeys, replicas.pair[1].key)
  /\ replicas.pair[1].timestamp > replicas.pair[2].timestamp
  /\ replicas.pair[1].data # replicas.pair[2].data

\* the data add stores for the argument data
Stored(data) == IF data = Undefined THEN defaultValue ELSE data

\* C4: an add with an explicit timestamp that passes validation returns true
\* iff the key has no entry and no tombstone, or timestamp >= existingTs (the
\* entry's timestamp if the key is live, else the tombstone's); it then maps
\* the key to <<timestamp, data>> in entries and in updates.entries and the
\* key is in neither deletedKeys.
C4_AddAccepted ==
  [][(result'.op = "add" /\ result'.status # "throw") =>
     \A timestamp \in Timestamps, data \in DataInputs :
       Add(result'.key, timestamp, data) =>
         LET key == result'.key
             live == Has(entries, key)
             dead == Has(deletedKeys, key)
             accepted == \/ ~live /\ ~dead
                         \/ live /\ timestamp >= Get(entries, key)[1]
                         \/ ~live /\ dead /\ timestamp >= Get(deletedKeys, key)
         IN /\ (result'.status = "true") <=> accepted
            /\ result'.status \in {"true", "false"}
            /\ accepted =>
                 /\ Has(entries', key)
                 /\ Get(entries', key) = <<timestamp, Stored(data)>>
                 /\ ~Has(deletedKeys', key)
                 /\ Has(updates'.entries, key)
                 /\ Get(updates'.entries, key) = <<timestamp, Stored(data)>>
                 /\ ~Has(updates'.deletedKeys, key)]_vars

\* C4's case: an add older than the key's tombstone has just been rejected.
C4_Witness ==
  /\ result.op = "add" /\ result.status = "false"
  /\ Has(deletedKeys, result.key)

\* C5: remove(key, t) with an explicit t returns false iff the key has an entry
\* whose timestamp is > t; otherwise it returns true, the key is not in entries
\* and its tombstone is t, in the primary maps and in updates.
C5_RemoveAccepted ==
  [][result'.op = "remove" =>
     \A t \in Timestamps :
       Remove(result'.key, t) =>
         LET key == result'.key
             rejected == Has(entries, key) /\ Get(entries, key)[1] > t
         IN /\ (result'.status = "false") <=> rejected
            /\ ~rejected =>
                 /\ result'.status = "true"
                 /\ ~Has(entries', key)
                 /\ Has(deletedKeys', key) /\ Get(deletedKeys', key) = t
                 /\ ~Has(updates'.entries, key)
                 /\ Has(updates'.deletedKeys, key) /\ Get(updates'.deletedKeys, key) = t]_vars

\* C5's case: a remove older than the key's entry has just been rejected.
C5_Witness ==
  /\ result.op = "remove" /\ result.status = "false"
  /\ Has(entries, result.key)

\* the maps, the pending updates and the caches are as before the call and
\* no subscriber was called
NothingChanged ==
  /\ UNCHANGED <<entries, deletedKeys, updates, cachedComputedProperties, cachedHash>>
  /\ calls' = <<>>

\* C6: an add (of valid data) or a remove that loses the timestamp comparison
\* returns false, raises nothing and changes nothing: entries, deletedKeys,
\* updates, the computed-property cache and the cached hash are unchanged and
\* no subscriber is called.
C6_LossChangesNothing ==
  [][/\ result'.op = "add" =>
          \A timestamp \in Timestamps, data \in DataInputs :
            (/\ validateEntry(validationFunction, result'.key, Stored(data))
             /\ existingTimestamp(Self, result'.key)[1]
             /\ timestamp < existingTimestamp(Self, result'.key)[2]
             /\ Add(result'.key, timestamp, data))
            => (result'.status = "false" /\ NothingChanged)
     /\ result'.op = "remove" =>
          \A timestamp \in Timestamps :
            (/\ Has(entries, result'.key)
             /\ timestamp < Get(entries, result'.key)[1]
             /\ Remove(result'.key, timestamp))
            => (result'.status = "false" /\ NothingChanged)
     /\ (result'.op \in {"add", "remove"} /\ result'.status = "false") => NothingChanged]_vars

\* C6's case: an add or a remove has just lost the comparison while the
\* caches were filled, updates were pending and a subscriber was listening.
C6_Witness ==
  /\ result.op \in {"add", "remove"} /\ result.status = "false"
  /\ cachedHash # <<>> /\ cachedComputedProperties # <<>>
  /\ updates.entries # <<>> /\ subscribers # <<>>

\* C7: when validateEntry is configured and returns false for (key, data), add
\* throws whatever the timestamp is; entries, deletedKeys, updates and the
\* caches are unchanged and no subscriber is called.
C7_InvalidEntryThrows ==
  [][result'.op = "add" =>
       \A timestamp \in TsInputs, data \in DataInputs :
         (/\ validationFunction # NoValidation
          /\ ~validateEntry(validationFunction, result'.key, Stored(data))
          /\ Add(result'.key, timestamp, data))
         => (result'.status = "throw" /\ NothingChanged)]_vars

\* C7's case: an add of invalid data has just thrown, for a key whose entry is
\* newer than any timestamp the add could carry, with the caches filled and a
\* subscriber listening.
C7_Witness ==
  /\ result.op = "add" /\ result.status = "throw"
  /\ Has(entries, result.key) /\ Get(entries, result.key)[1] = MaxTs
  /\ cachedHash # <<>> /\ cachedComputedProperties # <<>> /\ subscribers # <<>>

\* C8: a fresh Collection that imports export() holds the same keys with the
\* same timestamps and the same values, in entries and in deletedKeys.
C8_RoundTrip ==
  fresh.done =>
    /\ AsSet(fresh.entries) = AsSet(entries)
    /\ AsSet(fresh.deletedKeys) = AsSet(deletedKeys)

\* the pending updates hold the current record of key
PendingIsCurrent(key) ==
  /\ Has(entries, key) =>
       Has(updates.entries, key) /\ Get(updates.entries, key) = Get(entries, key)
  /\ Has(deletedKeys, key) =>
       Has(updates.deletedKeys, key)
       /\ Get(updates.deletedKeys, key) = Get(deletedKeys, key)

\* C9: when an add or remove of key k is accepted between A = getUpdates() and
\* clearUpdates(A), then after clearUpdates(A) returns k is still in the
\* pending updates, with its new record.
C9_MutatedKeyStaysPending ==
  (result.op = "clearUpdatesAck" /\ result.status = "void")
  => \A k \in snap.dirty : PendingIsCurrent(k)

\* C10: clearUpdates(A) completes normally and removes from the pending
\* updates exactly the entries whose (timestamp, value) equals A's and exactly
\* the tombstones whose timestamp equals A's; every other record stays.
C10_ClearsExactlyAcknowledged ==
  [][result'.op = "clearUpdatesAck" =>
       /\ result'.status = "void"
       /\ AsSet(updates'.entries) = AsSet(updates.entries) \ AsSet(Snapshot.entries)
       /\ AsSet(updates'.deletedKeys)
            = AsSet(updates.deletedKeys) \ AsSet(Snapshot.deletedKeys)]_vars

\* C11: after clearUpdates(getUpdates()), with nothing between the two calls,
\* the pending updates hold no entry and no tombstone, whatever calls came
\* before.
C11_SyncedClearEmpties ==
  result.op = "clearUpdatesSynced" => (result.status = "void" /\ updates = EmptyUpdates)

\* what a read of the hash accessor returns in the current state
HashValue == hash(Self).value

\* the last call was an accepted add, an accepted remove or a clear
Mutated(r) ==
  \/ r.op \in {"add", "remove"} /\ r.status = "true"
  \/ r.op = "clear"

\* C12 as stated: a read of hash leaves the value the next read returns as it
\* is, and every accepted add, accepted remove and clear changes it.
C12_HashChangesOnEveryMutation ==
  [][/\ result'.op = "hash" => (result'.value = HashValue /\ HashValue' = HashValue)
     /\ Mutated(result') => HashValue' # HashValue]_vars

\* C12, amended: a read of hash returns what the previous read returned when
\* no call came in between; after an accepted add, an accepted remove or a
\* clear, hash returns a different value iff the call changed the serialized
\* entries, and it always returns the hash of the current entries.
C12_HashFollowsEntries ==
  [][/\ result'.op = "hash" => (result'.value = HashValue /\ HashValue' = HashValue)
     /\ Mutated(result') =>
          /\ HashValue' = hashFunction(stringifyEntries(entries'))
          /\ (HashValue' # HashValue)
               <=> (stringifyEntries(entries') # stringifyEntries(entries))]_vars

\* C12's case: hash has been read and is cached, on a Collection that holds
\* an entry and a tombstone left by earlier accepted calls.
C12_Witness ==
  /\ result.op = "hash" /\ cachedHash = result.value
  /\ entries # <<>> /\ deletedKeys # <<>>

\* the elements of a sequence
Range(seq) == {seq[i] : i \in DOMAIN seq}

\* C13: a call that changes entries or deletedKeys (add, remove, clear,
\* import) leaves the computed-property cache and the cached hash empty and
\* has called every subscriber.
C13_EveryChangeNotifies ==
  [][(AsSet(entries') # AsSet(entries) \/ AsSet(deletedKeys') # AsSet(deletedKeys))
     => /\ cachedHash' = <<>>
        /\ cachedComputedProperties' = <<>>
        /\ Range(subscribers) \subseteq {calls'[i].fn : i \in DOMAIN calls'}]_vars

\* C14: import of a payload whose entries or deletedKeys is missing or is not
\* a mapping throws, whatever clearBeforeImporting is, and changes nothing:
\* entries, deletedKeys, updates and the caches are as before and no
\* subscriber is called.
C14_MalformedPayloadThrows ==
  [][result'.op = "import" =>
       \A data \in Malformed, clearBeforeImporting \in BOOLEAN :
         Import(data, clearBeforeImporting)
         => (result'.status = "throw" /\ NothingChanged)]_vars

\* C15: import of a payload of two mappings raises no error, and it leaves
\* entries and deletedKeys as the import of the same payload without its
\* records to skip leaves them (the entries that fail validation or whose
\* timestamp is not a positive integer, the tombstones whose timestamp is not
\* a positive integer): such a record is not written and every other record
\* is applied.  A record that loses the comparison is left to add and remove,
\* which write nothing for it.
C15_BadRecordsSkipped ==
  result.op = "importBoth" =>
    /\ result.status = "void"
    /\ AsSet(entries) = AsSet(fresh.entries)
    /\ AsSet(deletedKeys) = AsSet(fresh.deletedKeys)

\* the payload of the last import lists the key of its i-th entry also as its
\* j-th tombstone, the entry with a positive integer timestamp and data that
\* pass validation, the tombstone with a positive integer timestamp
Conflict(i, j) ==
  LET e == result.value.entries[i]
      d == result.value.deletedKeys[j]
  IN /\ e[1] = d[1]
     /\ isPositiveInteger(e[2][1]) /\ isPositiveInteger(d[2])
     /\ validateEntry(validationFunction, e[1], Stored(e[2][2]))

\* C16: after import(data) with clearBeforeImporting true of a payload that
\* lists a key in entries, with timestamp te, and in deletedKeys, with
\* timestamp td: import has raised nothing, and the key has the entry
\* <<te, value>> and no tombstone if te > td, and otherwise no entry and the
\* tombstone td.
C16_ImportConflict ==
  result.op = "importLogged" =>
    \A i \in DOMAIN result.value.entries, j \in DOMAIN result.value.deletedKeys :
      Conflict(i, j) =>
        LET key == result.value.entries[i][1]
            te == result.value.entries[i][2][1]
            td == result.value.deletedKeys[j][2]
        IN /\ result.status = "void"
           /\ IF te > td
                THEN /\ Has(entries, key)
                     /\ Get(entries, key) = <<te, Stored(result.value.entries[i][2][2])>>
                     /\ ~Has(deletedKeys, key)
                ELSE /\ ~Has(entries, key)
                     /\ Has(deletedKeys, key) /\ Get(deletedKeys, key) = td

\* C16's case: an import of a payload whose entry for a key is newer than its
\* tombstone for the same key has just run.
C16_Witness ==
  /\ result.op = "importLogged"
  /\ \E i \in DOMAIN result.value.entries, j \in DOMAIN result.value.deletedKeys :
       /\ Conflict(i, j)
       /\ result.value.entries[i][2][1] > result.value.deletedKeys[j][2]
       /\ Has(entries, result.value.entries[i][1])

\* the maps and the pending updates a callback found hold the entry for key
HoldsEntry(o, key, entry) ==
  /\ Has(o.entries, key) /\ Get(o.entries, key) = entry
  /\ ~Has(o.deletedKeys, key)
  /\ Has(o.updates.entries, key) /\ Get(o.updates.entries, key) = entry
  /\ ~Has(o.updates.deletedKeys, key)

\* the maps and the pending updates a callback found hold the tombstone for key
HoldsTombstone(o, key, timestamp) ==
  /\ ~Has(o.entries, key)
  /\ Has(o.deletedKeys, key) /\ Get(o.deletedKeys, key) = timestamp
  /\ ~Has(o.updates.entries, key)
  /\ Has(o.updates.deletedKeys, key) /\ Get(o.updates.deletedKeys, key) = timestamp

\* the maps and the pending updates a callback found are as the write left
\* them: an add of <<key, v>>, a remove of key at v, or a clear
Reflects(o, kind, key, v) ==
  CASE kind = "add" -> HoldsEntry(o, key, v)
    [] kind = "remove" -> HoldsTombstone(o, key, v)
    [] OTHER -> o.entries = <<>> /\ o.deletedKeys = <<>> /\ o.updates = EmptyUpdates

\* the callbacks called by a write after which "b" is live (bLive) or not:
\* every subscriber once, in the order of subscribers; when EvictB is among
\* them and "b" is live, the first EvictB removes "b", and the notifications
\* of that remove (every subscriber once, in order) come before the callbacks
\* subscribed after that EvictB.  Each of the callbacks up to that EvictB finds
\* the caches empty and the maps and pending updates as the write left them
\* (Reflects), each later one finds them empty and the maps and pending
\* updates as they are at the end, "b" removed.
NotifiedInOrder(bLive, kind, key, v) ==
  LET n == Len(subscribers)
      nested == bLive /\ EvictB \in Range(subscribers)
      p == IF nested THEN CHOOSE i \in 1 .. n :
                            /\ subscribers[i] = EvictB
                            /\ \A j \in 1 .. i - 1 : subscribers[j] # EvictB
           ELSE n
      expected == IF nested
                    THEN SubSeq(subscribers, 1, p) \o subscribers \o SubSeq(subscribers, p + 1, n)
                    ELSE subscribers
  IN /\ [i \in DOMAIN calls' |-> calls'[i].fn] = expected
     /\ \A i \in DOMAIN calls' :
          /\ calls'[i].clean
          /\ i <= p => Reflects(calls'[i], kind, key, v)
          /\ i > p =>
               /\ calls'[i].entries = entries'
               /\ calls'[i].deletedKeys = deletedKeys'
               /\ calls'[i].updates = updates'
               /\ HoldsTombstone(calls'[i], "b", MaxTs)

\* C17: an accepted add, an accepted remove and a clear call every subscriber
\* once, in subscription order, each call made after entries, deletedKeys and
\* updates hold the write and the caches are empty; when a callback writes to
\* the Collection, that write and its notifications are complete before the
\* next subscriber of the outer write is called.
C17_SubscribersNotified ==
  [][/\ (result'.op = "add" /\ result'.status = "true") =>
          \A timestamp \in Timestamps :
            Add(result'.key, timestamp, "x") =>
              NotifiedInOrder(result'.key = "b" \/ Has(entries, "b"),
                              "add", result'.key, <<timestamp, "x">>)
     /\ (result'.op = "remove" /\ result'.status = "true") =>
          \A timestamp \in Timestamps :
            Remove(result'.key, timestamp) =>
              NotifiedInOrder(result'.key # "b" /\ Has(entries, "b"),
                              "remove", result'.key, timestamp)
     /\ result'.op = "clear" => NotifiedInOrder(FALSE, "clear", "-", <<>>)]_vars

\* C17's case: an accepted add has just called two subscribers, the first of
\* which removed "b" when it was called: four calls were made, the last one
\* to the second subscriber of the add.
C17_Witness ==
  /\ result.op = "add" /\ result.status = "true"
  /\ subscribers = <<EvictB, "f">>
  /\ Len(calls) = 4

\* C18: in every state reached by add, remove, clear, import, clearUpdates and
\* the reads, every value in the computed-property cache is the function
\* applied to the current entries, a cached hash that is not empty is the hash
\* function applied to the serialization of the current entries, and what
\* get(fn) or hash has just returned is computed from the current entries.
C18_CachesCoherent ==
  /\ \A i \in DOMAIN cachedComputedProperties :
       cachedComputedProperties[i][2]
         = ComputedProperty(cachedComputedProperties[i][1], entries)
  /\ cachedHash # <<>> => cachedHash = hashFunction(stringifyEntries(entries))
  /\ result.op = "get" => \E fn \in Fns : result.value = ComputedProperty(fn, entries)
  /\ result.op = "hash" => result.value = hashFunction(stringifyEntries(entries))

\* C18's case: an import that changed deletedKeys has just run on a Collection
\* that holds an entry, and both caches, filled before the import, are still
\* filled.
C18_Witness ==
  /\ result.op = "import" /\ result.status = "void"
  /\ cachedHash # <<>> /\ cachedComputedProperties # <<>>
  /\ entries # <<>> /\ deletedKeys # <<>>

\* C19: in every state reached by add, remove, clear, import and clearUpdates,
\* every entry in updates.entries is the entry of its key in entries, and every
\* tombstone in updates.deletedKeys is the tombstone of its key in deletedKeys.
C19_UpdatesAgree ==
  /\ \A k \in KeysOf(updates.entries) :
       Has(entries, k) /\ Get(updates.entries, k) = Get(entries, k)
  /\ \A k \in KeysOf(updates.deletedKeys) :
       Has(deletedKeys, k) /\ Get(updates.deletedKeys, k) = Get(deletedKeys, k)

\* C20: an add or a remove with an explicit timestamp never lowers the
\* timestamp recorded for a key (that of its entry, or else of its tombstone).
C20_TimestampsNeverDecrease ==
  [][result'.op \in {"add", "remove"} =>
       \A k \in Keys :
         existingTimestamp(Self, k)[1] =>
           /\ Has(entries', k) \/ Has(deletedKeys', k)
           /\ Has(entries', k) => Get(entries', k)[1] >= existingTimestamp(Self, k)[2]
           /\ ~Has(entries', k) => Get(deletedKeys', k) >= existingTimestamp(Self, k)[2]]_vars

====
